---- MODULE Spec2Model ----
(***************************************************************************)
(* Model of portfolio_web_app.py: the PortfolioMonitor object (config,     *)
(* monitoring flag, monitor thread, scan snapshot), its scan over the      *)
(* configured symbols, the background monitor loop threads and the         *)
(* foreground request handlers that drive them.                            *)
(*                                                                         *)
(* Units.  Prices are integers in 1/PriceScale of a currency unit.         *)
(* alert_threshold is an integer number of 1/10000 (the handler quantizes  *)
(* the fraction to 0.0001).  pct_from_high and rsi are integers in 1/100   *)
(* (both are rounded to 2 decimals by the code).                           *)
(***************************************************************************)
EXTENDS Integers, Sequences, FiniteSets, TLC

\* ---------------------------------------------------------------- bounds
MaxThreads == 2     \* monitor threads ever started
MaxScans == 2       \* scans ever started (manual and scheduled together)

\* ------------------------------------------------------ program constants
RsiPeriod == 14             \* check_stock_alert: compute_rsi(..., period=14)
ErrorCooldown == 60         \* _monitor_loop: time.sleep(60) on error
DefaultThreshold == 500     \* load_config: "alert_threshold": 0.05
DefaultLookback == 30       \* load_config: "lookback_days": 30
DefaultInterval == 30       \* load_config: "scan_interval_minutes": 30
PriceScale == 1000          \* price units per currency unit (see Units)

NaN == -1                   \* a missing (NaN) High value of a price point
NoThread == 0               \* monitor_thread = None
NoTime == 0                 \* last_scan_time = None
NoScan == 0                 \* "no scan has written this field yet"

FG == 0                             \* the foreground request-handling context
Threads == 1..MaxThreads            \* monitor threads, in the order started
Procs == {FG} \cup Threads          \* every context that can run a scan

NoRsi == -1                         \* compute_rsi returning None

\* ------------------------------------------------------------ arithmetic
Abs(x) == IF x < 0 THEN -x ELSE x

\* round(n/d) to the nearest integer, ties to even (Python round, Decimal
\* quantize), for d > 0.
RoundHalfEven(n, d) ==
    LET q == n \div d
        r == n - q * d
    IN  IF 2 * r < d THEN q
        ELSE IF 2 * r > d THEN q + 1
        ELSE IF q % 2 = 0 THEN q ELSE q + 1

\* round(price, 2): a price in 1/PriceScale units to 1/100 units.
Round2Price(p) == RoundHalfEven(p * 100, PriceScale)

RECURSIVE SumSeq(_)
SumSeq(s) == IF s = <<>> THEN 0 ELSE Head(s) + SumSeq(Tail(s))

Last(s) == s[Len(s)]

\* -------------------------------------------------------- compute_rsi
\* delta = close.diff(); gains = delta.clip(lower=0); losses = -delta.clip(upper=0);
\* rolling means over the trailing `period` differences; rs = avg_gain/avg_loss with
\* avg_loss 0 replaced by NA; rsi = 100 - 100/(1+rs) = 100*gain/(gain+loss);
\* round(.., 2); an NA result is returned as None.
compute_rsi(closes, period) ==
    IF Len(closes) < period + 1 THEN NoRsi
    ELSE LET n == Len(closes)
             delta == [k \in 1..period |->
                          closes[n - period + k] - closes[n - period + k - 1]]
             gain == SumSeq([k \in 1..period |->
                          IF delta[k] > 0 THEN delta[k] ELSE 0])
             loss == SumSeq([k \in 1..period |->
                          IF delta[k] < 0 THEN -delta[k] ELSE 0])
         IN  IF loss = 0 THEN NoRsi
             ELSE RoundHalfEven(10000 * gain, gain + loss)

\* -------------------------------------------------- the market-data provider
\* A price point is [date, high, close]; a history is a sequence of points in
\* ascending date order.  The provider answers a fetch with [ok, data]: ok = FALSE
\* is an exception inside yfinance, data = <<>> an empty frame.
Point(d, h, c) == [date |-> d, high |-> h, close |-> c]

TieHistory == << Point(1, 3000, 3000), Point(2, 3000, 1000) >>
FlatHistory == << Point(1, 2000, 2000) >>
DropHistory == << Point(1, NaN, 2000), Point(2, 2000, 1900), Point(3, 1950, 1900) >>
NaNHistory == << Point(1, NaN, 1000) >>

\* RsiPeriod + 1 days: a close that rises every day, and one that rises and falls
\* back on alternate days.
RisingHistory ==
    [k \in 1..(RsiPeriod + 1) |-> Point(k, 1000 + 10 * k, 1000 + 10 * k)]
SeesawHistory ==
    [k \in 1..(RsiPeriod + 1) |-> Point(k, 1100, IF k % 2 = 0 THEN 1060 ELSE 1000)]

Unavailable == [ok |-> TRUE, data |-> <<>>]
FetchError == [ok |-> FALSE, data |-> <<>>]
Served(h) == [ok |-> TRUE, data |-> h]

\* The provider had a non-empty history to give.
HasHistory(answer) == answer.ok /\ answer.data # <<>>

\* ------------------------------------------------------- get_stock_data
\* Returns None (here <<>>) when the frame is empty or the fetch raised.
get_stock_data(answer) ==
    IF ~answer.ok THEN <<>>
    ELSE IF answer.data = <<>> THEN <<>>
    ELSE answer.data

\* ------------------------------------------------------ check_stock_alert
\* data['High'].max(): the maximum over the non-NaN highs, NaN when there are none.
MaxHigh(data) ==
    LET hs == {data[k].high : k \in 1..Len(data)} \ {NaN}
    IN  IF hs = {} THEN NaN ELSE CHOOSE h \in hs : \A g \in hs : g <= h

\* data.loc[data['High'] == recent_high].index: the rows whose high equals it
\* (NaN equals nothing).
HighRows(data, recent_high) ==
    {k \in 1..Len(data) : recent_high # NaN /\ data[k].high = recent_high}

\* .index[-1] raises IndexError on an empty selection.
EvalRaises(data) == HighRows(data, MaxHigh(data)) = {}

\* Line 110 with < for <=.
IsAlertStrict(current_price, recent_high, alert_threshold) ==
    10000 * (current_price - recent_high) < -alert_threshold * recent_high

\* pct_change <= -alert_threshold, with pct_change = (current - high) / high and the
\* threshold in 1/10000, for high > 0.
IsAlert(current_price, recent_high, alert_threshold) ==
    10000 * (current_price - recent_high) <= -alert_threshold * recent_high

\* Line 116 without the * 100: the fraction rounded to 2 decimals.
PctAsFraction(current_price, recent_high) ==
    RoundHalfEven(100 * (current_price - recent_high), recent_high)

\* round(pct_change * 100, 2), in 1/100 of a percent.
PctFromHigh(current_price, recent_high) ==
    RoundHalfEven(10000 * (current_price - recent_high), recent_high)

\* Line 118 with .index[0]: the first selected row.
DateOfFirstHigh(data, recent_high) ==
    LET rows == HighRows(data, recent_high)
    IN  data[CHOOSE k \in rows : \A j \in rows : k <= j].date

\* .index[-1]: the last selected row; strftime of its date.
DateOfHigh(data, recent_high) ==
    LET rows == HighRows(data, recent_high)
    IN  data[CHOOSE k \in rows : \A j \in rows : j <= k].date

\* The dict check_stock_alert returns for a non-empty frame on which it does not
\* raise; cfg_threshold is config['alert_threshold'] as read at line 104.
check_stock_alert(symbol, data, cfg_threshold) ==
    LET current_price == Last(data).close
        recent_high == MaxHigh(data)
        alert_threshold == Abs(cfg_threshold)
    IN  [symbol |-> symbol,
         current_price |-> Round2Price(current_price),
         recent_high |-> Round2Price(recent_high),
         pct_from_high |-> PctFromHigh(current_price, recent_high),
         is_alert |-> IsAlert(current_price, recent_high, alert_threshold),
         date_of_high |-> DateOfHigh(data, recent_high),
         rsi |-> compute_rsi([k \in 1..Len(data) |-> data[k].close], RsiPeriod)]

\* ------------------------------------------------------------------ state
VARIABLES
    config,             \* monitor.config
    config_file,        \* the content of the JSON file save_config writes
    form,               \* request.form of the update_settings call in progress
    monitoring,         \* monitor.monitoring
    monitor_thread,     \* monitor.monitor_thread: a thread of Threads, or NoThread
    last_scan_results,  \* monitor.last_scan_results
    last_scan_time,     \* monitor.last_scan_time: a clock reading, or NoTime
    pc,                 \* where each context is in its code
    loc,                \* the locals of each context's current (or last) scan
    sleeping,           \* the seconds of the time.sleep each thread is in or was last in
    clock,              \* the last reading datetime.now() returned
    nthreads,           \* threads started so far
    nscans,             \* scans started so far
    response,           \* the foreground handler running or last run, and its result
    snapBy,             \* history: the scan that wrote each field of the snapshot
    stopSeen            \* history: stop_monitoring ran while this thread was alive

vars == << config, config_file, form, monitoring, monitor_thread, last_scan_results, last_scan_time,
           pc, loc, sleeping, clock, nthreads, nscans, response, snapBy, stopSeen >>

\* The scheduler's fields, and the snapshot's.
confVars == << config, config_file, form >>
schedVars == << monitoring, monitor_thread, nthreads, stopSeen >>
snapVars == << last_scan_results, last_scan_time, clock, snapBy >>

\* ------------------------------------------------------------ load_config
EmailDefaults ==
    [enabled |-> FALSE, smtp_server |-> "smtp.gmail.com", smtp_port |-> 587,
     sender_email |-> "", sender_password |-> "", recipient_email |-> ""]

default_config ==
    [stocks |-> <<>>,
     alert_threshold |-> DefaultThreshold,
     lookback_days |-> DefaultLookback,
     scan_interval_minutes |-> DefaultInterval,
     tradingview_url |-> "",
     thesis_entries |-> <<>>,
     email_settings |-> EmailDefaults]

\* A config file written by an earlier run: two symbols, mail enabled.
stored_config ==
    [default_config EXCEPT
        !.stocks = << "AAA", "BBB" >>,
        !.email_settings = [EmailDefaults EXCEPT
            !.enabled = TRUE, !.sender_email = "me@x", !.sender_password = "pw",
            !.recipient_email = "you@x"]]

\* load_config: the file's content when it exists, the defaults otherwise.
load_config == {default_config, stored_config}

\* ------------------------------------------------------------ request.form
\* A form field: absent from the form, text that parses as a number, or text that
\* does not.  alert_threshold is carried in 1/1000 of a percent.
Absent == [kind |-> "absent", n |-> 0]
Num(n) == [kind |-> "num", n |-> n]
Bad == [kind |-> "bad", n |-> 0]
Text(t) == [kind |-> "text", t |-> t]
NoText == [kind |-> "absent", t |-> ""]

NoForm ==
    [alert_threshold |-> Absent, lookback_days |-> Absent,
     scan_interval_minutes |-> Absent, tradingview_url |-> NoText,
     email_enabled |-> FALSE, sender_email |-> NoText, sender_password |-> NoText,
     recipient_email |-> NoText, smtp_server |-> NoText, smtp_port |-> Absent]

\* request.form.get(name, default) followed by Decimal() or int().
Get(field, default) == IF field.kind = "absent" THEN default ELSE field.n
GetText(field, default) == IF field.kind = "absent" THEN default ELSE field.t

\* What scan_portfolio returned to a foreground handler (lines 211 and 372:
\* alerts, results = monitor.scan_portfolio()); cfg and served are history: the
\* config the scan ended under and what get_stock_data gave it for each symbol.
NoOut ==
    [valid |-> FALSE, cfg |-> default_config, served |-> <<>>, alerts |-> <<>>,
     results |-> <<>>]

\* The locals of scan_portfolio and of the check_stock_alert call in progress.
\* The others are history: avail and served are whether each symbol handled so far
\* had a frame and what get_stock_data returned for it, cfg_threshold is
\* config['alert_threshold'] as last read, calls the alert batches
\* send_email_alert was called with, prev what the foreground scan immediately
\* before this one returned.
NoLocals ==
    [id |-> NoScan, stocks |-> <<>>, i |-> 1, data |-> <<>>, lookback |-> 0,
     cfg_threshold |-> 0, results |-> <<>>, alerts |-> <<>>, raised |-> FALSE,
     appended |-> FALSE, avail |-> <<>>, served |-> <<>>, mail |-> "none",
     calls |-> <<>>, prev |-> NoOut]

\* What a foreground handler answers: op is the handler, was the monitoring flag it
\* found, ret what the monitor's method returned to it.  The other fields are the
\* JSON object of api_status; time_by and results_by are history: the scans whose
\* timestamp and results it read.  out is what a scan returned to the handler.
Response(op, was, ret) ==
    [op |-> op, was |-> was, ret |-> ret,
     monitoring |-> FALSE, last_scan_time |-> NoTime, stock_count |-> 0,
     alert_count |-> 0, time_by |-> NoScan, results_by |-> NoScan, out |-> NoOut]

\* __init__ (lines 18-26) and the module-level monitor = PortfolioMonitor().
Init ==
    /\ config \in load_config
    /\ config_file = config
    /\ form = NoForm
    /\ monitoring = FALSE
    /\ monitor_thread = NoThread
    /\ last_scan_results = <<>>
    /\ last_scan_time = NoTime
    /\ pc = [p \in Procs |-> IF p = FG THEN "idle" ELSE "unborn"]
    /\ loc = [p \in Procs |-> NoLocals]
    /\ sleeping = [t \in Threads |-> 0]
    /\ clock = 0
    /\ nthreads = 0
    /\ nscans = 0
    /\ response = Response("none", FALSE, "none")
    /\ snapBy = [results |-> NoScan, time |-> NoScan]
    /\ stopSeen = [t \in Threads |-> FALSE]

Alive(t) == pc[t] \notin {"unborn", "done"}

\* --------------------------------------------------------- start_monitoring
\* start_monitoring without the test of line 178.
start_unguarded ==
    /\ pc[FG] = "idle"
    /\ nthreads < MaxThreads
    /\ monitoring' = TRUE
    /\ nthreads' = nthreads + 1
    /\ monitor_thread' = nthreads + 1
    /\ pc' = [pc EXCEPT ![nthreads + 1] = "check"]
    /\ response' = Response("start", monitoring, "true")
    /\ UNCHANGED << confVars, snapVars, loc, sleeping, nscans, stopSeen >>

\* Lines 176-185, called by the /start_monitoring handler.
start_monitoring ==
    /\ pc[FG] = "idle"
    /\ IF monitoring
       THEN /\ response' = Response("start", monitoring, "false")
            /\ UNCHANGED << monitoring, monitor_thread, pc, nthreads >>
       ELSE /\ nthreads < MaxThreads
            /\ monitoring' = TRUE
            /\ nthreads' = nthreads + 1
            /\ monitor_thread' = nthreads + 1
            /\ pc' = [pc EXCEPT ![nthreads + 1] = "check"]
            /\ response' = Response("start", monitoring, "true")
    /\ UNCHANGED << confVars, snapVars, loc, sleeping, nscans, stopSeen >>

\* ---------------------------------------------------------- stop_monitoring
\* Line 189: the flag is cleared; the handler then waits in join(timeout=1).
stop_begin ==
    /\ pc[FG] = "idle"
    /\ monitoring' = FALSE
    /\ pc' = [pc EXCEPT ![FG] = "joining"]
    /\ stopSeen' = [t \in Threads |-> stopSeen[t] \/ Alive(t)]
    /\ response' = Response("stopping", monitoring, "none")
    /\ UNCHANGED << confVars, snapVars, monitor_thread, nthreads, loc, sleeping, nscans >>

\* Lines 190-192: join returns when the thread has ended or after one second,
\* whichever comes first; the result is True either way.
stop_return ==
    /\ pc[FG] = "joining"
    /\ pc' = [pc EXCEPT ![FG] = "idle"]
    /\ response' = Response("stop", response.was, "true")
    /\ UNCHANGED << confVars, snapVars, schedVars, loc, sleeping, nscans >>

\* ----------------------------------------------------------- scan_portfolio
\* What a context does when scan_portfolio returns or raises: the foreground
\* handler ends (an exception ends it with an error response); the monitor loop
\* goes on to lines 199-200 and sleeps for the configured interval, or to its
\* except clause (lines 201-203) and sleeps for the cooldown.
\* _monitor_loop without its try/except: an exception ends the thread.
AfterScanUncaught(p, raises) ==
    IF p = FG THEN "idle" ELSE IF raises THEN "done" ELSE "sleep"

AfterScan(p, raises) == IF p = FG THEN "idle" ELSE "sleep"

\* Line 199 with the default interval for the configured one.
SleepForDefault(raises) ==
    IF raises THEN ErrorCooldown ELSE DefaultInterval * 60

SleepFor(raises) ==
    IF raises THEN ErrorCooldown ELSE config.scan_interval_minutes * 60

LoopSleep(p, raises) ==
    sleeping' = IF p = FG THEN sleeping
                ELSE [sleeping EXCEPT ![p] = SleepFor(raises)]

ScanResponse(p, raises) ==
    IF p = FG
    THEN [Response("scan", response.was, IF raises THEN "raised" ELSE "returned")
          EXCEPT !.out = IF raises THEN NoOut
                         ELSE [valid |-> TRUE, cfg |-> config,
                               served |-> loc[p].served, alerts |-> loc[p].alerts,
                               results |-> loc[p].results]]
    ELSE response

\* The next step of the for loop of line 128 once symbol i has been handled.
NextSymbol(l) == IF l.i < Len(l.stocks) THEN "fetch" ELSE "pub_results"

\* History: what the foreground handler before this one got from its scan, when
\* this scan is a foreground scan that follows a foreground scan immediately.
PreviousOut(p) ==
    IF p = FG /\ response.op = "scan" /\ response.ret = "returned"
    THEN response.out ELSE NoOut

\* Lines 125-128 with the lists kept from the scan before (results and alerts as
\* attributes that are appended to and never emptied).
scan_begin_accumulating(p) ==
    /\ pc[p] = IF p = FG THEN "idle" ELSE "call"
    /\ nscans < MaxScans
    /\ nscans' = nscans + 1
    /\ loc' = [loc EXCEPT ![p] =
                  [NoLocals EXCEPT !.id = nscans + 1,
                                   !.stocks = config.stocks,
                                   !.prev = PreviousOut(p),
                                   !.results = last_scan_results,
                                   !.alerts = SelectSeq(last_scan_results,
                                                        LAMBDA r : r.is_alert)]]
    /\ pc' = [pc EXCEPT ![p] = IF config.stocks = <<>> THEN "pub_results" ELSE "fetch"]
    /\ response' = IF p = FG THEN Response("scan", monitoring, "none") ELSE response
    /\ UNCHANGED << confVars, snapVars, schedVars, sleeping >>

\* Lines 125-128: fresh lists, and the iterator over the current stocks list.  The
\* foreground runs it from the /scan_now and / handlers, a monitor thread from
\* line 198.
scan_begin(p) ==
    /\ pc[p] = IF p = FG THEN "idle" ELSE "call"
    /\ nscans < MaxScans
    /\ nscans' = nscans + 1
    /\ loc' = [loc EXCEPT ![p] = [NoLocals EXCEPT !.id = nscans + 1,
                                                  !.stocks = config.stocks,
                                                  !.prev = PreviousOut(p)]]
    /\ pc' = [pc EXCEPT ![p] = IF config.stocks = <<>> THEN "pub_results" ELSE "fetch"]
    /\ response' = IF p = FG THEN Response("scan", monitoring, "none") ELSE response
    /\ UNCHANGED << confVars, snapVars, schedVars, sleeping >>

\* Lines 129, 97-99 and 78-93: get_stock_data for the current symbol; a None makes
\* check_stock_alert return None and the symbol is skipped (line 130).
fetch(p, answer) ==
    /\ pc[p] = "fetch"
    /\ LET l == loc[p]
           data == get_stock_data(answer)
       IN  IF data = <<>>
           THEN /\ loc' = [loc EXCEPT ![p] = [l EXCEPT
                              !.lookback = config.lookback_days,
                              !.data = <<>>,
                              !.appended = FALSE,
                              !.avail = Append(l.avail, HasHistory(answer)),
                              !.served = Append(l.served, data),
                              !.i = IF l.i < Len(l.stocks) THEN l.i + 1 ELSE l.i]]
                /\ pc' = [pc EXCEPT ![p] = NextSymbol(l)]
           ELSE /\ loc' = [loc EXCEPT ![p] = [l EXCEPT
                              !.lookback = config.lookback_days,
                              !.data = data,
                              !.appended = FALSE,
                              !.avail = Append(l.avail, HasHistory(answer)),
                              !.served = Append(l.served, data)]]
                /\ pc' = [pc EXCEPT ![p] = "eval"]
    /\ UNCHANGED << confVars, snapVars, schedVars, sleeping, nscans, response >>

\* Lines 131-133 with the append to results under the test of line 132.
CollectAlertsOnly(l, result) ==
    IF result.is_alert
    THEN [l EXCEPT !.results = Append(l.results, result),
                   !.alerts = Append(l.alerts, result)]
    ELSE l

\* Lines 131-133: the result is appended to results, and to alerts when it alerts.
Collect(l, result) ==
    [l EXCEPT !.results = Append(l.results, result),
              !.alerts = IF result.is_alert THEN Append(l.alerts, result)
                         ELSE l.alerts]

\* Lines 101-121 and 130-133: the result of the current symbol.  Nothing between
\* line 101 and line 121, nor in scan_portfolio, catches an exception: it leaves
\* scan_portfolio, whose locals are lost.
evaluate(p) ==
    /\ pc[p] = "eval"
    /\ LET l == loc[p]
       IN  IF EvalRaises(l.data)
           THEN /\ loc' = [loc EXCEPT ![p] = [NoLocals EXCEPT !.raised = TRUE]]
                /\ pc' = [pc EXCEPT ![p] = AfterScan(p, TRUE)]
                /\ LoopSleep(p, TRUE)
                /\ response' = ScanResponse(p, TRUE)
           ELSE /\ loc' = [loc EXCEPT ![p] =
                              [Collect(l, check_stock_alert(l.stocks[l.i], l.data,
                                                            config.alert_threshold))
                               EXCEPT !.cfg_threshold = config.alert_threshold,
                                      !.appended = TRUE,
                                      !.i = IF l.i < Len(l.stocks) THEN l.i + 1
                                            ELSE l.i]]
                /\ pc' = [pc EXCEPT ![p] = NextSymbol(l)]
                /\ UNCHANGED << sleeping, response >>
    /\ UNCHANGED << confVars, snapVars, schedVars, nscans >>

\* Line 135.
publish_results(p) ==
    /\ pc[p] = "pub_results"
    /\ last_scan_results' = loc[p].results
    /\ snapBy' = [snapBy EXCEPT !.results = loc[p].id]
    /\ pc' = [pc EXCEPT ![p] = "pub_time"]
    /\ UNCHANGED << confVars, schedVars, last_scan_time, clock, loc, sleeping, nscans,
                    response >>

\* Line 136: datetime.now() is a later reading than any before it.
publish_time(p) ==
    /\ pc[p] = "pub_time"
    /\ clock' = clock + 1
    /\ last_scan_time' = clock + 1
    /\ snapBy' = [snapBy EXCEPT !.time = loc[p].id]
    /\ pc' = [pc EXCEPT ![p] = "notify"]
    /\ UNCHANGED << confVars, schedVars, last_scan_results, loc, sleeping, nscans,
                    response >>

\* ---------------------------------------------------------- send_email_alert
\* Lines 146-174: False when mail is disabled, otherwise the message is built and
\* sent inside a try; smtp_ok is whether the SMTP exchange went through.
send_email_alert(email_config, smtp_ok) ==
    IF ~email_config.enabled THEN "none"
    ELSE IF smtp_ok THEN "sent" ELSE "failed"

\* Lines 139-140 as a loop over the alerts: one call of send_email_alert for each.
NotifierCallsPerAlert(alerts, enabled) ==
    IF enabled THEN [k \in 1..Len(alerts) |-> << alerts[k] >>] ELSE <<>>

\* Lines 139-140: the argument of each call of send_email_alert one scan makes.
NotifierCalls(alerts, enabled) ==
    IF alerts # <<>> /\ enabled THEN << alerts >> ELSE <<>>

\* Lines 138-140 with send_email_alert lacking its try/except (lines 150, 172-174):
\* the SMTP error leaves send_email_alert and, nothing catching it, scan_portfolio.
notify_uncaught(p, smtp_ok) ==
    /\ pc[p] = "notify"
    /\ LET calls == NotifierCalls(loc[p].alerts, config.email_settings.enabled)
       IN  IF calls # <<>> /\ ~smtp_ok
           THEN /\ loc' = [loc EXCEPT ![p] = [NoLocals EXCEPT !.raised = TRUE]]
                /\ pc' = [pc EXCEPT ![p] = AfterScan(p, TRUE)]
                /\ LoopSleep(p, TRUE)
                /\ response' = ScanResponse(p, TRUE)
           ELSE /\ loc' = [loc EXCEPT
                              ![p].calls = calls,
                              ![p].mail = IF calls # <<>>
                                          THEN send_email_alert(config.email_settings,
                                                                smtp_ok)
                                          ELSE "none"]
                /\ pc' = [pc EXCEPT ![p] = "return"]
                /\ UNCHANGED << sleeping, response >>
    /\ UNCHANGED << confVars, snapVars, schedVars, nscans >>

\* Lines 138-140: the mail, when there are alerts and mail is enabled.
notify(p, smtp_ok) ==
    /\ pc[p] = "notify"
    /\ LET calls == NotifierCalls(loc[p].alerts, config.email_settings.enabled)
       IN  loc' = [loc EXCEPT
                      ![p].calls = calls,
                      ![p].mail = IF calls # <<>>
                                  THEN send_email_alert(config.email_settings, smtp_ok)
                                  ELSE "none"]
    /\ pc' = [pc EXCEPT ![p] = "return"]
    /\ UNCHANGED << confVars, snapVars, schedVars, sleeping, nscans, response >>

\* Line 142 in a scan that keeps the time of the last scan in the config and
\* saves it (self.config['last_scan'] = ...; self.save_config()).
scan_return_saving(p) ==
    /\ pc[p] = "return"
    /\ loc' = [loc EXCEPT ![p] = NoLocals]
    /\ pc' = [pc EXCEPT ![p] = AfterScan(p, FALSE)]
    /\ LoopSleep(p, FALSE)
    /\ response' = ScanResponse(p, FALSE)
    /\ config' = [k \in DOMAIN config \cup {"last_scan"} |->
                     IF k = "last_scan" THEN last_scan_time ELSE config[k]]
    /\ config_file' = config'
    /\ UNCHANGED << form, snapVars, schedVars, nscans >>

\* Line 142: (alerts, results) is returned and the locals are gone.
scan_return(p) ==
    /\ pc[p] = "return"
    /\ loc' = [loc EXCEPT ![p] = NoLocals]
    /\ pc' = [pc EXCEPT ![p] = AfterScan(p, FALSE)]
    /\ LoopSleep(p, FALSE)
    /\ response' = ScanResponse(p, FALSE)
    /\ UNCHANGED << confVars, snapVars, schedVars, nscans >>

\* ------------------------------------------------------------ _monitor_loop
\* Line 196: the while test, reached when the thread starts and whenever a
\* time.sleep (line 200 or 203) returns.
loop_test(t) ==
    /\ pc[t] \in {"check", "sleep"}
    /\ pc' = [pc EXCEPT ![t] = IF monitoring THEN "call" ELSE "done"]
    /\ loc' = [loc EXCEPT ![t] = NoLocals]
    /\ UNCHANGED << confVars, snapVars, schedVars, sleeping, nscans, response >>

\* --------------------------------------------------------------- api_status
AlertCount(results) ==
    Cardinality({k \in 1..Len(results) : results[k].is_alert})

\* Lines 459-460: monitoring and last_scan_time are read.
status_first ==
    /\ pc[FG] = "idle"
    /\ response' = [Response("status", monitoring, "none") EXCEPT
                       !.monitoring = monitoring,
                       !.last_scan_time = last_scan_time,
                       !.time_by = snapBy.time]
    /\ pc' = [pc EXCEPT ![FG] = "status"]
    /\ UNCHANGED << confVars, snapVars, schedVars, loc, sleeping, nscans >>

\* Lines 461-463: the stocks and last_scan_results are read and the response sent.
status_second ==
    /\ pc[FG] = "status"
    /\ response' = [response EXCEPT !.ret = "returned",
                                    !.stock_count = Len(config.stocks),
                                    !.alert_count = AlertCount(last_scan_results),
                                    !.results_by = snapBy.results]
    /\ pc' = [pc EXCEPT ![FG] = "idle"]
    /\ UNCHANGED << confVars, snapVars, schedVars, loc, sleeping, nscans >>

\* ------------------------------------------------------------ save_config
\* Lines 71-76, called without an argument: the config is dumped to the file.
save_config(cfg) == cfg

\* ------------------------------------------------------------ update_stocks
\* strip().upper() of one piece of the submitted text.
StripUpper(piece) ==
    CASE piece = "aaa" -> "AAA"
      [] piece = " AAA " -> "AAA"
      [] piece = "bbb" -> "BBB"
      [] piece = "BBB" -> "BBB"
      [] piece = " " -> ""
      [] OTHER -> piece

\* Line 229: pieces is the text split at commas and newlines; the pieces that are
\* empty once stripped are dropped, the others stripped and upper-cased.
ParseStocks(pieces) ==
    LET kept == SelectSeq(pieces, LAMBDA x : StripUpper(x) # "")
    IN  [k \in 1..Len(kept) |-> StripUpper(kept[k])]

\* Lines 226-235.
update_stocks(pieces) ==
    /\ pc[FG] = "idle"
    /\ config' = [config EXCEPT !.stocks = ParseStocks(pieces)]
    /\ config_file' = save_config(config')
    /\ response' = Response("update_stocks", monitoring, "returned")
    /\ UNCHANGED << form, snapVars, schedVars, pc, loc, sleeping, nscans >>

\* ---------------------------------------------------------- update_settings
\* Lines 243-245: percent / 100 quantized to 0.0001 (ties to even), as a number of
\* 1/10000; float() of a 4-decimal Decimal is printed back as the same decimal.
AlertFraction(alert_percent) == RoundHalfEven(alert_percent, 10)

\* The except clause of lines 264-265: the error is flashed, nothing is undone.
SettingsError ==
    /\ pc' = [pc EXCEPT ![FG] = "idle"]
    /\ response' = Response("update_settings", response.was, "error")
    /\ form' = NoForm

SettingsStep(next) ==
    /\ pc' = [pc EXCEPT ![FG] = next]
    /\ UNCHANGED << response, form >>

\* Lines 242-245.
settings_threshold(f) ==
    /\ pc[FG] = "idle"
    /\ IF f.alert_threshold.kind = "bad"
       THEN /\ pc' = pc
            /\ response' = Response("update_settings", monitoring, "error")
            /\ UNCHANGED << config, form >>
       ELSE /\ config' = [config EXCEPT !.alert_threshold =
                             AlertFraction(Get(f.alert_threshold, 5000))]
            /\ pc' = [pc EXCEPT ![FG] = "set_lookback"]
            /\ response' = Response("update_settings", monitoring, "none")
            /\ form' = f
    /\ UNCHANGED << config_file, snapVars, schedVars, loc, sleeping, nscans >>

\* Line 246.
settings_lookback ==
    /\ pc[FG] = "set_lookback"
    /\ IF form.lookback_days.kind = "bad"
       THEN SettingsError /\ UNCHANGED config
       ELSE /\ config' = [config EXCEPT !.lookback_days = Get(form.lookback_days, 30)]
            /\ SettingsStep("set_interval")
    /\ UNCHANGED << config_file, snapVars, schedVars, loc, sleeping, nscans >>

\* Line 247.
settings_interval ==
    /\ pc[FG] = "set_interval"
    /\ IF form.scan_interval_minutes.kind = "bad"
       THEN SettingsError /\ UNCHANGED config
       ELSE /\ config' = [config EXCEPT !.scan_interval_minutes =
                             Get(form.scan_interval_minutes, 30)]
            /\ SettingsStep("set_email")
    /\ UNCHANGED << config_file, snapVars, schedVars, loc, sleeping, nscans >>

\* Lines 249-257: email_settings is the dict the config holds, so each assignment
\* is at once a change of the config.
settings_email ==
    /\ pc[FG] = "set_email"
    /\ config' = [config EXCEPT
          !.tradingview_url = GetText(form.tradingview_url, ""),
          !.email_settings = [@ EXCEPT
              !.enabled = form.email_enabled,
              !.sender_email = GetText(form.sender_email, ""),
              !.sender_password = GetText(form.sender_password, ""),
              !.recipient_email = GetText(form.recipient_email, ""),
              !.smtp_server = GetText(form.smtp_server, "smtp.gmail.com")]]
    /\ SettingsStep("set_port")
    /\ UNCHANGED << config_file, snapVars, schedVars, loc, sleeping, nscans >>

\* Lines 258-263: the port, then the save.
settings_save ==
    /\ pc[FG] = "set_port"
    /\ IF form.smtp_port.kind = "bad"
       THEN SettingsError /\ UNCHANGED << config, config_file >>
       ELSE /\ config' = [config EXCEPT !.email_settings.smtp_port =
                             Get(form.smtp_port, 587)]
            /\ config_file' = save_config(config')
            /\ pc' = [pc EXCEPT ![FG] = "idle"]
            /\ response' = Response("update_settings", response.was, "returned")
            /\ form' = NoForm
    /\ UNCHANGED << snapVars, schedVars, loc, sleeping, nscans >>

\* ------------------------------------------------------------ specification
\* The answers the market-data provider gives in Spec.
Provider == {Unavailable, Served(DropHistory), Served(NaNHistory)}

Next ==
    \/ start_monitoring
    \/ stop_begin
    \/ stop_return
    \/ status_first
    \/ status_second
    \/ \E p \in Procs : scan_begin(p)
    \/ \E p \in Procs : \E answer \in Provider : fetch(p, answer)
    \/ \E p \in Procs : evaluate(p)
    \/ \E p \in Procs : publish_results(p)
    \/ \E p \in Procs : publish_time(p)
    \/ \E p \in Procs : \E smtp_ok \in BOOLEAN : notify(p, smtp_ok)
    \/ \E p \in Procs : scan_return(p)
    \/ \E t \in Threads : loop_test(t)

Spec == Init /\ [][Next]_vars

\* SpecSched: the scheduler and the scans (no status query) against a provider
\* that has no usable history: an empty frame, or a frame without a High.
SchedProvider == {Unavailable, Served(NaNHistory)}

NextSched ==
    \/ start_monitoring
    \/ stop_begin
    \/ stop_return
    \/ \E p \in Procs : scan_begin(p)
    \/ \E p \in Procs : \E answer \in SchedProvider : fetch(p, answer)
    \/ \E p \in Procs : evaluate(p)
    \/ \E p \in Procs : publish_results(p)
    \/ \E p \in Procs : publish_time(p)
    \/ \E p \in Procs : \E smtp_ok \in BOOLEAN : notify(p, smtp_ok)
    \/ \E p \in Procs : scan_return(p)
    \/ \E t \in Threads : loop_test(t)

SpecSched == Init /\ [][NextSched]_vars

\* SpecEval: the foreground alone (no monitor thread is started) changing the
\* settings and the stocks and scanning, against a provider with more answers.
EvalProvider ==
    {Unavailable, FetchError, Served(TieHistory), Served(FlatHistory),
     Served(DropHistory), Served(NaNHistory)}

MonitoringForm(percent) ==
    [NoForm EXCEPT !.alert_threshold = Num(percent), !.lookback_days = Num(30),
                   !.scan_interval_minutes = Num(30), !.smtp_port = Num(587),
                   !.smtp_server = Text("smtp.gmail.com")]

IntegrationsForm == [NoForm EXCEPT !.tradingview_url = Text("https://tv")]

SettingsForms ==
    {MonitoringForm(66670), MonitoringForm(-5000), MonitoringForm(5005),
     [MonitoringForm(0) EXCEPT !.smtp_port = Bad],
     [MonitoringForm(5000) EXCEPT !.alert_threshold = Bad],
     [MonitoringForm(5000) EXCEPT !.lookback_days = Bad],
     [MonitoringForm(5000) EXCEPT !.scan_interval_minutes = Bad],
     IntegrationsForm}

StockTexts == { << "aaa", "BBB" >>, << " ", "bbb" >>, << >> }

NextEval ==
    \/ \E pieces \in StockTexts : update_stocks(pieces)
    \/ \E f \in SettingsForms : settings_threshold(f)
    \/ settings_lookback
    \/ settings_interval
    \/ settings_email
    \/ settings_save
    \/ scan_begin(FG)
    \/ \E answer \in EvalProvider : fetch(FG, answer)
    \/ evaluate(FG)
    \/ publish_results(FG)
    \/ publish_time(FG)
    \/ \E smtp_ok \in BOOLEAN : notify(FG, smtp_ok)
    \/ scan_return(FG)

SpecEval == Init /\ [][NextEval]_vars

\* SpecConf: the foreground changing the stocks and the settings while the monitor
\* loop, once started, runs and scans; the provider has histories long enough for
\* the RSI.
ConfProvider ==
    {Unavailable, Served(FlatHistory), Served(RisingHistory), Served(SeesawHistory)}

ConfStockTexts == { << "aaa" >>, << "aaa", " AAA " >> }

ConfForm ==
    [MonitoringForm(-10000) EXCEPT !.lookback_days = Num(7),
                                   !.scan_interval_minutes = Num(5)]

NextConf ==
    \/ start_monitoring
    \/ \E pieces \in ConfStockTexts : update_stocks(pieces)
    \/ settings_threshold(ConfForm)
    \/ settings_lookback
    \/ settings_interval
    \/ settings_email
    \/ settings_save
    \/ \E t \in Threads : scan_begin(t)
    \/ \E t \in Threads : \E answer \in ConfProvider : fetch(t, answer)
    \/ \E t \in Threads : evaluate(t)
    \/ \E t \in Threads : publish_results(t)
    \/ \E t \in Threads : publish_time(t)
    \/ \E t \in Threads : \E smtp_ok \in BOOLEAN : notify(t, smtp_ok)
    \/ \E t \in Threads : scan_return(t)
    \/ \E t \in Threads : loop_test(t)

SpecConf == Init /\ [][NextConf]_vars

\* ================================================================= claims
ScanPcs == {"fetch", "eval", "pub_results", "pub_time", "notify", "return"}
Scanning(p) == pc[p] \in ScanPcs

\* The loop threads that have been started and have not left their while loop.
LiveLoops == {t \in Threads : Alive(t)}

\* C1: at most one background loop is active at a time: while the monitoring
\* flag is set (so that every live loop passes its next while test and scans
\* again) there is at most one live loop thread.
C1_AtMostOneActiveLoop == monitoring => Cardinality(LiveLoops) <= 1

\* C2: a status query never reports a timestamp and results that come from two
\* different scans.
C2_ReaderSeesOneScan ==
    (response.op = "status" /\ response.ret = "returned")
        => response.time_by = response.results_by

\* C3: once no scan is in progress, last_scan_results and last_scan_time were
\* written by one and the same scan.
C3_SnapshotOfOneScan ==
    (\A p \in Procs : ~Scanning(p)) => snapBy.results = snapBy.time

\* C4: the scheduler is a two-state machine that starts Stopped: start() returns
\* true exactly when it found the scheduler Stopped and leaves it Running, stop()
\* returns true and leaves it Stopped, so a start() that follows a stop() returns
\* true and one that follows a start() returns false.
C4_State ==
    /\ response.op = "none" => ~monitoring
    /\ response.op = "start" =>
          /\ monitoring
          /\ response.ret = IF response.was THEN "false" ELSE "true"
    /\ response.op \in {"stopping", "stop"} => ~monitoring
    /\ response.op = "stop" => response.ret = "true"

C4_SchedulerStateMachine ==
    /\ []C4_State
    /\ [][/\ (response.op = "stop" /\ response'.op = "start")
                => response'.ret = "true"
          /\ (response.op = "start" /\ response'.op = "start"
                /\ response' # response) => response'.ret = "false"]_vars

C4_Witness ==
    /\ response.op = "start"
    /\ response.ret = "true"
    /\ nthreads = 2

\* C5: stop() returns true even when its join timed out (the thread is still
\* alive), and a loop that was alive when stop() ran leaves its while loop the
\* next time it evaluates the loop test.
C5_StoppedLoopExits ==
    [][/\ response'.op = "stop" => response'.ret = "true"
       /\ \A t \in Threads :
             (stopSeen[t] /\ pc[t] \in {"check", "sleep"} /\ pc'[t] # pc[t])
                => pc'[t] = "done"]_vars

\* C6: an error raised by a scan of the monitor loop never ends the loop: the
\* thread sleeps for the cooldown, and when it wakes with the scheduler still
\* Running it calls the scan again; a thread leaves the loop only at a while test
\* that finds the flag cleared, after a stop() issued during the thread's life.
C6_LoopSurvivesErrors ==
    [][\A t \in Threads :
          /\ (pc[t] = "eval" /\ loc'[t].raised)
                => (pc'[t] = "sleep" /\ sleeping'[t] = ErrorCooldown)
          /\ (pc[t] = "sleep" /\ pc'[t] # "sleep" /\ monitoring)
                => pc'[t] = "call"
          /\ (pc[t] # "done" /\ pc'[t] = "done")
                => (pc[t] \in {"check", "sleep"} /\ ~monitoring /\ stopSeen[t])]_vars

\* A thread whose last sleep was the cooldown is scanning again.
C6_Witness ==
    \E t \in Threads :
        sleeping[t] = ErrorCooldown /\ ~stopSeen[t] /\ pc[t] = "fetch"

\* C7: no scan is ever left by an exception: whatever the provider answers for a
\* symbol, the scan goes on with the next symbol and returns.
C7_NoScanAborts == \A p \in Procs : ~loc[p].raised

\* C8: when the for loop of a scan is over, results holds exactly the configured
\* symbols for which the provider had a history, once each and in the configured
\* order, and alerts holds those of results that alert, so that a symbol without
\* a history is in neither.
RECURSIVE WithHistory(_, _)
WithHistory(stocks, avail) ==
    IF stocks = <<>> THEN <<>>
    ELSE IF Head(avail) THEN << Head(stocks) >> \o WithHistory(Tail(stocks), Tail(avail))
         ELSE WithHistory(Tail(stocks), Tail(avail))

SymbolsOf(results) == [k \in 1..Len(results) |-> results[k].symbol]

LoopOver(p) == pc[p] \in {"pub_results", "pub_time", "notify", "return"}

C8_ResultsPerAvailableSymbol ==
    \A p \in Procs :
        LoopOver(p) =>
            /\ Len(loc[p].avail) = Len(loc[p].stocks)
            /\ SymbolsOf(loc[p].results) = WithHistory(loc[p].stocks, loc[p].avail)
            /\ loc[p].alerts = SelectSeq(loc[p].results, LAMBDA r : r.is_alert)

C8_Witness ==
    /\ pc[FG] = "return"
    /\ loc[FG].stocks = << "AAA", "BBB" >>
    /\ loc[FG].avail = << TRUE, FALSE >>
    /\ SymbolsOf(loc[FG].results) = << "AAA" >>

\* The result check_stock_alert has just appended in context p, with the close and
\* the high it was computed from and the configured threshold it read.
Evaluated(p) == loc[p].appended
LastResult(p) == Last(loc[p].results)
LastClose(p) == Last(loc[p].data).close
LastHigh(p) == MaxHigh(loc[p].data)

\* C9 as claimed: is_alert iff (current_price - recent_high) / recent_high
\* <= -alert_threshold, alert_threshold being the configured value.
C9_AlertIffBelowConfigured ==
    \A p \in Procs :
        Evaluated(p) =>
            (LastResult(p).is_alert <=>
                10000 * (LastClose(p) - LastHigh(p))
                    <= -loc[p].cfg_threshold * LastHigh(p))

\* C9 as amended: is_alert iff (current_price - recent_high) / recent_high
\* <= -|alert_threshold|, the absolute value of the configured value.
C9_AlertIffBelowAbsolute ==
    \A p \in Procs :
        Evaluated(p) =>
            (LastResult(p).is_alert <=>
                10000 * (LastClose(p) - LastHigh(p))
                    <= -Abs(loc[p].cfg_threshold) * LastHigh(p))

\* A result computed under a negative configured threshold, at exactly 5% below
\* the high.
C9_Witness ==
    /\ Evaluated(FG)
    /\ loc[FG].cfg_threshold = -500
    /\ loc[FG].data = DropHistory
    /\ LastResult(FG).is_alert

C11_NotifierOncePerScan ==
    \A p \in Procs :
        pc[p] = "return" =>
            /\ (loc[p].calls # <<>>)
                  <=> (loc[p].alerts # <<>> /\ config.email_settings.enabled)
            /\ Len(loc[p].calls) <= 1
            /\ loc[p].calls # <<>>
                  => loc[p].calls[1] = SelectSeq(loc[p].results, LAMBDA r : r.is_alert)

\* A scan with two alerts and mail enabled has made one call with both.
C11_Witness ==
    /\ pc[FG] = "return"
    /\ Len(loc[FG].alerts) = 2
    /\ config.email_settings.enabled
    /\ loc[FG].calls = << loc[FG].alerts >>

\* C12: a failure of the notifier never raises into the scan: the step after the
\* notification is the return of scan_portfolio, and a scan whose mail failed has
\* published the snapshot with its results and returns (alerts, results) to its
\* caller.
C12_State ==
    \A p \in Procs :
        (pc[p] = "return" /\ loc[p].mail = "failed") =>
            /\ ~loc[p].raised
            /\ last_scan_results = loc[p].results
            /\ last_scan_time # NoTime
            /\ snapBy = [results |-> loc[p].id, time |-> loc[p].id]

C12_NotifierFailureContained ==
    /\ []C12_State
    /\ [][\A p \in Procs :
            /\ (pc[p] = "notify" /\ pc'[p] # "notify")
                  => (pc'[p] = "return" /\ ~loc'[p].raised)
            /\ (p = FG /\ pc[p] = "return" /\ loc[p].mail = "failed"
                    /\ pc'[p] # "return")
                  => /\ response'.ret = "returned"
                     /\ response'.out.alerts = loc[p].alerts
                     /\ response'.out.results = loc[p].results]_vars

\* The SMTP exchange of a scan with alerts failed and the scan is returning.
C12_Witness ==
    /\ pc[FG] = "return"
    /\ loc[FG].mail = "failed"
    /\ loc[FG].alerts # <<>>
    /\ last_scan_results = loc[FG].results

\* C13: for a close series of at least period + 1 points whose last `period`
\* differences contain no loss, compute_rsi returns 100.0 (10000 here), not None.
Closes(data) == [k \in 1..Len(data) |-> data[k].close]

NoLossWindow(closes) ==
    /\ Len(closes) >= RsiPeriod + 1
    /\ \A k \in (Len(closes) - RsiPeriod + 1)..Len(closes) : closes[k] >= closes[k - 1]

C13_RsiHundredWithoutLoss ==
    \A p \in Procs :
        (Evaluated(p) /\ NoLossWindow(Closes(loc[p].data)))
            => LastResult(p).rsi = 10000

\* C14: recent_high is the maximum high over all points of the history (reported
\* to 2 decimals), and date_of_high is the date of the last point that has it, also
\* when several points share it.
C14_DateOfLastHigh ==
    \A p \in Procs :
        Evaluated(p) =>
            LET data == loc[p].data
                r == LastResult(p)
            IN  \E k \in 1..Len(data) :
                    /\ data[k].high # NaN
                    /\ \A j \in 1..Len(data) :
                          data[j].high # NaN => data[j].high <= data[k].high
                    /\ \A j \in (k + 1)..Len(data) : data[j].high # data[k].high
                    /\ r.recent_high = Round2Price(data[k].high)
                    /\ r.date_of_high = data[k].date

\* Two days share the high 3.00: the reported date is the second.
C14_Witness ==
    /\ Evaluated(FG)
    /\ loc[FG].data = TieHistory
    /\ LastResult(FG).recent_high = 300
    /\ LastResult(FG).date_of_high = 2

\* The places of update_settings between its first assignment to the config and
\* its save.
SettingsPcs == {"set_lookback", "set_interval", "set_email", "set_port"}

\* C15: a scan never evaluates with a half-updated config: it never reads the
\* alert_threshold an update_settings call in progress has written for a symbol
\* whose history it fetched with the lookback_days that call has yet to overwrite
\* with another value.
C15_NoHalfUpdatedConfig ==
    [][\A p \in Procs :
          (pc[p] = "eval" /\ loc'[p].appended) =>
              ~ /\ pc[FG] = "set_lookback"
                /\ loc'[p].cfg_threshold = AlertFraction(Get(form.alert_threshold, 5000))
                /\ loc'[p].lookback = config.lookback_days
                /\ config.lookback_days # Get(form.lookback_days, 30)]_vars

\* C16: the config (and its file) is changed only by a foreground request
\* handler: a step that changes it is a step of update_stocks or update_settings,
\* and leaves the scheduler, every monitor thread, every scan and the snapshot as
\* they are.
C16_ConfigChangedByHandlersOnly ==
    [][(config' # config \/ config_file' # config_file) =>
          /\ pc[FG] \in {"idle"} \cup SettingsPcs
          /\ response'.op \in {"update_stocks", "update_settings"}
          /\ \A t \in Threads : pc'[t] = pc[t] /\ loc'[t] = loc[t]
          /\ loc'[FG] = loc[FG]
          /\ UNCHANGED << schedVars, snapVars, sleeping, nscans >>]_vars

\* The monitor loop has been started and stopped, a second loop started, and
\* scans of the loop and of the foreground have returned: the config is the one
\* that was loaded.
C16_Witness ==
    /\ config \in load_config
    /\ config_file = config
    /\ nscans = MaxScans
    /\ response.op = "scan" /\ response.ret = "returned"
    /\ \E t \in Threads : stopSeen[t] /\ pc[t] = "sleep"
    /\ nthreads = 2

\* C17: whenever no update_settings call is in progress, the config and its file
\* have an alert_threshold in [0, 1) (in 1/10000: 0..9999) and a positive
\* lookback_days and scan_interval_minutes.
ValidSettings(cfg) ==
    /\ cfg.alert_threshold >= 0
    /\ cfg.alert_threshold < 10000
    /\ cfg.lookback_days > 0
    /\ cfg.scan_interval_minutes > 0

C17_ConfigInvariants ==
    pc[FG] \notin SettingsPcs => (ValidSettings(config) /\ ValidSettings(config_file))

\* C18: the configured symbols are an ordered set of upper-case tickers: each is
\* non-empty and upper-case and none occurs twice, and the results of a scan whose
\* loop is over hold no symbol twice.
UpperTickers == {"AAA", "BBB"}

NoRepeat(seq) == \A i, j \in 1..Len(seq) : seq[i] = seq[j] => i = j

C18_SymbolsOrderedSet ==
    /\ \A i \in 1..Len(config.stocks) : config.stocks[i] \in UpperTickers
    /\ NoRepeat(config.stocks)
    /\ \A p \in Procs : LoopOver(p) => NoRepeat(SymbolsOf(loc[p].results))

\* C19: a foreground scan that follows a foreground scan immediately, under the
\* same config and with get_stock_data giving the same history for each symbol,
\* returns the same alerts and results as that scan did.
SameInput(p) ==
    /\ loc[p].prev.valid
    /\ loc[p].prev.cfg = config
    /\ loc[p].prev.served = loc[p].served

C19_ScanIdempotent ==
    (pc[FG] = "return" /\ SameInput(FG)) =>
        /\ loc[FG].alerts = loc[FG].prev.alerts
        /\ loc[FG].results = loc[FG].prev.results

\* The second of two scans of two symbols, one alerting and one not.
C19_Witness ==
    /\ pc[FG] = "return"
    /\ SameInput(FG)
    /\ Len(loc[FG].results) = 2
    /\ Len(loc[FG].alerts) = 1

\* C20: stopping is cooperative: a step that clears the monitoring flag leaves
\* every monitor thread where it is, in its scan or in its sleep, and a thread
\* leaves a scan it has started only by the return of scan_portfolio, that is
\* after it has published the snapshot, and then goes to its interval sleep.
C20_CooperativeStop ==
    [][\A t \in Threads :
          /\ (monitoring /\ ~monitoring')
                => (pc'[t] = pc[t] /\ loc'[t] = loc[t] /\ sleeping'[t] = sleeping[t])
          /\ (pc[t] \in ScanPcs /\ pc'[t] \notin ScanPcs)
                => (pc[t] = "return" /\ pc'[t] = "sleep"
                      /\ sleeping'[t] = config.scan_interval_minutes * 60)]_vars

FormInHand == IF pc[FG] = "idle" THEN form' ELSE form

OmitsMail(f) ==
    /\ ~f.email_enabled
    /\ f.sender_email.kind = "absent"
    /\ f.sender_password.kind = "absent"
    /\ f.recipient_email.kind = "absent"
    /\ f.smtp_server.kind = "absent"
    /\ f.smtp_port.kind = "absent"

C22_OmittedFieldsUnchanged ==
    [][(response'.op = "update_settings" /\ pc[FG] \in {"idle"} \cup SettingsPcs) =>
          /\ FormInHand.alert_threshold.kind = "absent"
                => config'.alert_threshold = config.alert_threshold
          /\ FormInHand.lookback_days.kind = "absent"
                => config'.lookback_days = config.lookback_days
          /\ FormInHand.scan_interval_minutes.kind = "absent"
                => config'.scan_interval_minutes = config.scan_interval_minutes
          /\ FormInHand.tradingview_url.kind = "absent"
                => config'.tradingview_url = config.tradingview_url
          /\ OmitsMail(FormInHand)
                => config'.email_settings = config.email_settings]_vars

\* C23: update_settings is all-or-nothing: when it has answered with an error,
\* the config in memory equals the last saved config.
C23_SettingsAllOrNothing ==
    (pc[FG] = "idle" /\ response.op = "update_settings" /\ response.ret = "error")
        => config = config_file
====
